---- MODULE Spec2Model ----
(***************************************************************************)
(* The multi-browser task dispatcher of examples/multibox.py:              *)
(* BrowserInstance, MultiBoxManager (create_browser, queue_task,           *)
(* process_queues, _focus_browser, _execute_task, stop, get_results) and   *)
(* the drain waiter _wait_for_empty_queue.                                 *)
(*                                                                         *)
(* Coroutines are cut at their awaits: everything a coroutine does between *)
(* two suspension points is one action.  BrowserInstance objects live in   *)
(* the heap `insts`; `browsers` is the manager's dict (insertion ordered)  *)
(* from names to heap references.                                          *)
(***************************************************************************)
EXTENDS Integers, Sequences, FiniteSets, TLC

\* Names callers use for browsers, and the task types they enqueue.
Names == {"A", "B"}
TaskTypes == {"see", "bogus"}

\* Total number of queue_task calls on registered browsers in one run.
MaxEnq == 4

\* A name is registered again only while fewer than MaxCreate instances
\* have been created.
MaxCreate == 2

\* Dispatcher coroutines: one in Spec, two in SpecTwoLoops.
\* (LoopsPair: faulty variant of LoopsOne, a second coroutine in every
\* specification.)
LoopsPair == {1, 2}
LoopsOne == {1}
LoopsTwo == {1, 2}

\* Drain waiters: one in Spec, two gathered in SpecGather.
WaitersOne == {1}
WaitersTwo == {1, 2}

VARIABLES
    browsers,   \* MultiBoxManager.browsers: sequence of [name, ref], insertion order
    insts,      \* heap of BrowserInstance objects, ref = index
    running,    \* MultiBoxManager.running
    loops,      \* process_queues coroutines: [pc, ref, task, waiting, overtaken]
    waiters,    \* _wait_for_empty_queue coroutines: [pc, ref]
    ret         \* outcome of the last caller-facing call that returns or raises

vars == <<browsers, insts, running, loops, waiters, ret>>

----------------------------------------------------------------------------
(* BrowserInstance and the manager's dict *)

\* _execute_task's if/elif chain: the task types it dispatches.
KnownTypes == {"execute_action", "see", "press_key", "scroll"}

\* BrowserInstance.__init__.  window_info: FALSE is None.  last_active: -1 is
\* the initial 0 ("never"), 0 is the time of the attach, k > 0 the time at
\* which the k-th task of this instance completed.  creating and enq are
\* bookkeeping: create_browser still awaiting, and the number of queue_task
\* calls so far on this instance.
NewBrowserInstance(name) ==
    [name |-> name, window_info |-> FALSE, is_busy |-> FALSE, last_active |-> -1,
     task_queue |-> <<>>, results |-> <<>>, creating |-> TRUE, enq |-> 0]

\* `name in self.browsers`
Registered == {browsers[k].name : k \in DOMAIN browsers}

\* Position of a registered name in the dict's insertion order.
PosOf(name) == CHOOSE k \in DOMAIN browsers : browsers[k].name = name

\* self.browsers[name]
RefOf(name) == browsers[PosOf(name)].ref

\* self.browsers[name] = browser: a new key goes last, an existing key keeps
\* its position and is rebound.
DictSet(name, ref) ==
    IF name \in Registered
        THEN [browsers EXCEPT ![PosOf(name)].ref = ref]
        ELSE Append(browsers, [name |-> name, ref |-> ref])

\* The (task_type, task_args) tuple of line 149.  task_args names the browser
\* and the ordinal of the call on it, which tells all tasks apart.
Task(type, name, k) == [task_type |-> type, task_args |-> <<name, k>>]
NoTask == Task("", "", 0)

\* A process_queues coroutine before its first step.  pc, ref and task are
\* its position and its locals next_browser and (task_type, task_args).
\* prev, waiting and overtaken are history: the browser whose task this loop
\* last suspended on (0 if the last task popped failed before any await),
\* the browsers that were idle with pending work when that task was popped,
\* and, while a task is in flight, those of them that are still waiting now
\* that the loop has popped the next task of the same browser.
NewLoop(pc) ==
    [pc |-> pc, ref |-> 0, task |-> NoTask, prev |-> 0, waiting |-> {},
     overtaken |-> {}]

\* The coroutine between two tasks: the locals are dead.
LoopIdle(pc, lp) ==
    [lp EXCEPT !.pc = pc, !.ref = 0, !.task = NoTask, !.overtaken = {}]

RECURSIVE SumEnq(_)
SumEnq(s) == IF s = <<>> THEN 0 ELSE Head(s).enq + SumEnq(Tail(s))

\* Total number of tasks enqueued so far (bounds the run).
TotalEnq == SumEnq(insts)

InitWith(loopIds, waiterIds) ==
    /\ browsers = <<>>
    /\ insts = <<>>
    /\ running = FALSE
    /\ loops = [l \in loopIds |-> NewLoop("idle")]
    /\ waiters = [w \in waiterIds |-> [pc |-> "idle", ref |-> 0]]
    /\ ret = [op |-> "none", res |-> "none"]

\* MultiBoxManager.__init__, one dispatcher coroutine, one drain waiter.
Init == InitWith(LoopsOne, WaitersOne)

----------------------------------------------------------------------------
(* Caller-facing operations *)

\* create_browser up to its first await: the instance is built and bound in
\* the dict before anything is attached (lines 74-75).
CreateBrowser(name) ==
    /\ insts' = Append(insts, NewBrowserInstance(name))
    /\ browsers' = DictSet(name, Len(insts) + 1)
    /\ UNCHANGED <<running, loops, waiters, ret>>

\* Faulty variant of AttachDone: the window is recorded on the instance even
\* when attaching raised.
AttachDoneStoresAnyway(ref, ok) ==
    /\ ref \in DOMAIN insts
    /\ insts[ref].creating
    /\ insts' = [insts EXCEPT ![ref] =
            [@ EXCEPT !.window_info = TRUE, !.last_active = 0, !.creating = FALSE]]
    /\ UNCHANGED <<browsers, running, loops, waiters, ret>>

\* The rest of create_browser.  Everything between the two steps is calls to
\* the SDK; what matters is whether they got through to line 120 (ok) or
\* raised into the except clause, which swallows the error.
AttachDone(ref, ok) ==
    /\ ref \in DOMAIN insts
    /\ insts[ref].creating
    /\ insts' = [insts EXCEPT ![ref] =
            IF ok THEN [@ EXCEPT !.window_info = TRUE, !.last_active = 0,
                                 !.creating = FALSE]
                  ELSE [@ EXCEPT !.creating = FALSE]]
    /\ UNCHANGED <<browsers, running, loops, waiters, ret>>

\* Faulty variant of QueueTask: the task is put at the head of the queue.
QueueTaskAtHead(name, type) ==
    /\ IF name \notin Registered
          THEN ret' = [op |-> "queue_task", res |-> "ValueError"] /\ UNCHANGED insts
          ELSE insts' = [insts EXCEPT ![RefOf(name)] = [@ EXCEPT
                            !.task_queue = <<Task(type, name, insts[RefOf(name)].enq + 1)>> \o @,
                            !.enq = @ + 1]]
               /\ ret' = [op |-> "queue_task", res |-> "ok"]
    /\ UNCHANGED <<browsers, running, loops, waiters>>

\* Faulty variant of QueueTask: a task for a busy browser is refused.
QueueTaskRefusedWhenBusy(name, type) ==
    /\ IF name \notin Registered \/ insts[RefOf(name)].is_busy
          THEN ret' = [op |-> "queue_task", res |-> "ValueError"] /\ UNCHANGED insts
          ELSE insts' = [insts EXCEPT ![RefOf(name)] = [@ EXCEPT
                            !.task_queue = Append(@, Task(type, name, insts[RefOf(name)].enq + 1)),
                            !.enq = @ + 1]]
               /\ ret' = [op |-> "queue_task", res |-> "ok"]
    /\ UNCHANGED <<browsers, running, loops, waiters>>

\* Faulty variant of QueueTask: queueing a task starts the browser's results
\* afresh.
QueueTaskClearsResults(name, type) ==
    /\ IF name \notin Registered
          THEN ret' = [op |-> "queue_task", res |-> "ValueError"] /\ UNCHANGED insts
          ELSE insts' = [insts EXCEPT ![RefOf(name)] = [@ EXCEPT
                            !.task_queue = Append(@, Task(type, name, insts[RefOf(name)].enq + 1)),
                            !.enq = @ + 1,
                            !.results = << >>]]
               /\ ret' = [op |-> "queue_task", res |-> "ok"]
    /\ UNCHANGED <<browsers, running, loops, waiters>>

\* queue_task: ValueError for an unknown name, else append to the right of
\* the instance's deque.
QueueTask(name, type) ==
    /\ IF name \notin Registered
          THEN /\ ret' = [op |-> "queue_task", res |-> "ValueError"]
               /\ UNCHANGED insts
          ELSE /\ insts' = [insts EXCEPT ![RefOf(name)] =
                      [@ EXCEPT !.task_queue =
                                    Append(@, Task(type, name, insts[RefOf(name)].enq + 1)),
                                !.enq = @ + 1]]
               /\ ret' = [op |-> "queue_task", res |-> "ok"]
    /\ UNCHANGED <<browsers, running, loops, waiters>>

\* Faulty variant of GetResults: the records handed out are taken off the
\* list.
GetResultsTakes(name) ==
    /\ IF name \notin Registered
          THEN ret' = [op |-> "get_results", res |-> "ValueError"] /\ UNCHANGED insts
          ELSE /\ ret' = [op |-> "get_results", res |-> "ok",
                          val |-> insts[RefOf(name)].results]
               /\ insts' = [insts EXCEPT ![RefOf(name)].results = <<>>]
    /\ UNCHANGED <<browsers, running, loops, waiters>>

\* get_results (lines 245-258): ValueError for a name that is not a key of
\* self.browsers, otherwise the results list of the instance bound to the
\* name.  The coroutine has no await, so it is one step.  `val` is what the
\* caller reads from the list when the call returns.
GetResults(name) ==
    /\ ret' = IF name \notin Registered
                 THEN [op |-> "get_results", res |-> "ValueError"]
                 ELSE [op |-> "get_results", res |-> "ok",
                       val |-> insts[RefOf(name)].results]
    /\ UNCHANGED <<browsers, insts, running, loops, waiters>>

\* queue_task by a caller that keeps a browser supplied: whenever the queue
\* of the browser has run empty it queues one more task.  These tasks are
\* of a type that _execute_task refuses, so that they leave no record and
\* the supply can go on for ever in a finite state space; they are not
\* counted in `enq` and carry the ordinal 0.
QueueAgain(name) ==
    /\ name \in Registered
    /\ Len(insts[RefOf(name)].task_queue) = 0
    /\ insts' = [insts EXCEPT ![RefOf(name)].task_queue =
                    Append(@, Task(CHOOSE t \in TaskTypes : t \notin KnownTypes, name, 0))]
    /\ ret' = [op |-> "queue_task", res |-> "ok"]
    /\ UNCHANGED <<browsers, running, loops, waiters>>

\* stop
Stop ==
    /\ running' = FALSE
    /\ UNCHANGED <<browsers, insts, loops, waiters, ret>>

\* stop as main calls it (line 338): while the process_queues task it has
\* created exists.  The return of the call is kept in `ret`.
StopCalled ==
    /\ \E l \in DOMAIN loops : loops[l].pc \notin {"idle", "done"}
    /\ running' = FALSE
    /\ ret' = [op |-> "stop", res |-> "ok"]
    /\ UNCHANGED <<browsers, insts, loops, waiters>>

----------------------------------------------------------------------------
(* process_queues *)

\* The scan's test (line 160): not busy and a non-empty queue.  (Faulty
\* variant first: the test without `not browser.is_busy`.)
EligibleIgnoringBusy(b) == Len(b.task_queue) > 0
Eligible(b) == ~b.is_busy /\ Len(b.task_queue) > 0

\* Faulty variant of NextBrowser: the scan keeps the last eligible browser
\* instead of stopping at the first.
NextBrowserLast ==
    LET cand == {k \in DOMAIN browsers : Eligible(insts[browsers[k].ref])}
    IN  IF cand = {} THEN 0
        ELSE browsers[CHOOSE k \in cand : \A j \in cand : k >= j].ref

\* Faulty variant of NextBrowser: when no browser is eligible the scan
\* falls back on the first one with a task queued, busy or not.
NextBrowserAnyPending ==
    LET cand == {k \in DOMAIN browsers : Eligible(insts[browsers[k].ref])}
        pend == {k \in DOMAIN browsers : Len(insts[browsers[k].ref].task_queue) > 0}
    IN  IF cand # {} THEN browsers[CHOOSE k \in cand : \A j \in cand : k <= j].ref
        ELSE IF pend # {} THEN browsers[CHOOSE k \in pend : \A j \in pend : k <= j].ref
        ELSE 0

\* Lines 158-162: the first eligible browser in dict order; 0 is None.
NextBrowser ==
    LET cand == {k \in DOMAIN browsers : Eligible(insts[browsers[k].ref])}
    IN  IF cand = {} THEN 0
        ELSE browsers[CHOOSE k \in cand : \A j \in cand : k <= j].ref

\* Names of the other registered browsers that are idle with pending work
\* at the moment `ref` is selected (history only).
WaitingBeside(ref) ==
    {browsers[k].name : k \in {j \in DOMAIN browsers :
        browsers[j].ref # ref /\ Eligible(insts[browsers[j].ref])}}

\* The while test of line 156.  (Faulty variant first: `while True`.)
LoopGoesOnRegardless(run) == TRUE
LoopGoesOn(run) == run

\* popleft() of line 169: the task taken and the queue left.  (Faulty
\* variant first: pop() takes the newest task.)
PopRight(q) == [task |-> q[Len(q)], rest |-> SubSeq(q, 1, Len(q) - 1)]
PopLeft(q) == [task |-> Head(q), rest |-> Tail(q)]

\* Faulty variant of Iterate: the loop suspends between popping the task
\* and marking the browser busy, so the step leaves the flag as it found it.
IterateMarkingLate(l, run) ==
    IF ~LoopGoesOn(run)
    THEN /\ loops' = [loops EXCEPT ![l] = LoopIdle("done", @)]
         /\ UNCHANGED insts
    ELSE LET nb == NextBrowser IN
         IF nb = 0
         THEN /\ loops' = [loops EXCEPT ![l] = LoopIdle("sleep", @)]
              /\ UNCHANGED insts
         ELSE LET task == PopLeft(insts[nb].task_queue).task
                  rest == PopLeft(insts[nb].task_queue).rest IN
              IF ~insts[nb].window_info
              THEN /\ insts' = [insts EXCEPT ![nb].task_queue = rest]
                   /\ loops' = [loops EXCEPT ![l] = LoopIdle("sleep",
                            [@ EXCEPT !.prev = 0, !.waiting = {}])]
              ELSE /\ insts' = [insts EXCEPT ![nb].task_queue = rest]
                   /\ loops' = [loops EXCEPT ![l] =
                        [pc |-> "focus", ref |-> nb, task |-> task,
                         prev |-> nb, waiting |-> WaitingBeside(nb),
                         overtaken |-> {}]]

\* Faulty variant of Iterate: the window is checked before the task is
\* popped, so a browser without window_info keeps its tasks.
IterateChecksWindowFirst(l, run) ==
    IF ~LoopGoesOn(run)
    THEN /\ loops' = [loops EXCEPT ![l] = LoopIdle("done", @)]
         /\ UNCHANGED insts
    ELSE LET nb == NextBrowser IN
         IF nb = 0
         THEN /\ loops' = [loops EXCEPT ![l] = LoopIdle("sleep", @)]
              /\ UNCHANGED insts
         ELSE LET task == PopLeft(insts[nb].task_queue).task
                  rest == PopLeft(insts[nb].task_queue).rest IN
              IF ~insts[nb].window_info
              THEN /\ loops' = [loops EXCEPT ![l] = LoopIdle("sleep",
                            [@ EXCEPT !.prev = 0, !.waiting = {}])]
                   /\ UNCHANGED insts
              ELSE /\ insts' = [insts EXCEPT ![nb].task_queue = rest,
                                             ![nb].is_busy = TRUE]
                   /\ loops' = [loops EXCEPT ![l] =
                        [pc |-> "focus", ref |-> nb, task |-> task,
                         prev |-> nb, waiting |-> WaitingBeside(nb),
                         overtaken |-> IF @.prev = nb
                                       THEN @.waiting \cap WaitingBeside(nb)
                                       ELSE {}]]

\* Faulty variant of Iterate: the scan may settle on any eligible browser,
\* not on the first in dict order.
IterateAnyEligible(l, run) ==
    IF ~LoopGoesOn(run)
    THEN /\ loops' = [loops EXCEPT ![l] = LoopIdle("done", @)]
         /\ UNCHANGED insts
    ELSE IF NextBrowser = 0
         THEN /\ loops' = [loops EXCEPT ![l] = LoopIdle("sleep", @)]
              /\ UNCHANGED insts
         ELSE \E k \in DOMAIN browsers :
              LET nb == browsers[k].ref IN
              /\ Eligible(insts[nb])
              /\ LET task == PopLeft(insts[nb].task_queue).task
                     rest == PopLeft(insts[nb].task_queue).rest IN
                 IF ~insts[nb].window_info
                 THEN /\ insts' = [insts EXCEPT ![nb].task_queue = rest,
                                                ![nb].is_busy = FALSE]
                      /\ loops' = [loops EXCEPT ![l] = LoopIdle("sleep",
                               [@ EXCEPT !.prev = 0, !.waiting = {}])]
                 ELSE /\ insts' = [insts EXCEPT ![nb].task_queue = rest,
                                                ![nb].is_busy = TRUE]
                      /\ loops' = [loops EXCEPT ![l] =
                           [pc |-> "focus", ref |-> nb, task |-> task,
                            prev |-> nb, waiting |-> WaitingBeside(nb),
                            overtaken |-> IF @.prev = nb
                                          THEN @.waiting \cap WaitingBeside(nb)
                                          ELSE {}]]

\* One pass of the while loop from its test to the first await that
\* suspends: line 156 to the await inside _focus_browser, or to the sleep of
\* line 197.  `run` is the value of self.running the test reads.  A browser
\* without window_info makes _focus_browser raise before any await, so the
\* except and finally clauses run in the same step.
Iterate(l, run) ==
    IF ~LoopGoesOn(run)
    THEN /\ loops' = [loops EXCEPT ![l] = LoopIdle("done", @)]
         /\ UNCHANGED insts
    ELSE LET nb == NextBrowser IN
         IF nb = 0
         THEN /\ loops' = [loops EXCEPT ![l] = LoopIdle("sleep", @)]
              /\ UNCHANGED insts
         ELSE LET task == PopLeft(insts[nb].task_queue).task
                  rest == PopLeft(insts[nb].task_queue).rest IN
              IF ~insts[nb].window_info
              THEN /\ insts' = [insts EXCEPT ![nb].task_queue = rest,
                                             ![nb].is_busy = FALSE]
                   /\ loops' = [loops EXCEPT ![l] = LoopIdle("sleep",
                            [@ EXCEPT !.prev = 0, !.waiting = {}])]
              ELSE /\ insts' = [insts EXCEPT ![nb].task_queue = rest,
                                             ![nb].is_busy = TRUE]
                   /\ loops' = [loops EXCEPT ![l] =
                        [pc |-> "focus", ref |-> nb, task |-> task,
                         prev |-> nb, waiting |-> WaitingBeside(nb),
                         overtaken |-> IF @.prev = nb
                                       THEN @.waiting \cap WaitingBeside(nb)
                                       ELSE {}]]

\* Faulty variant of StartLoop: a new process_queues call starts from
\* empty queues.
StartLoopClearsQueues(l) ==
    /\ loops[l].pc \in {"idle", "done"}
    /\ loops' = [loops EXCEPT ![l] = NewLoop("scheduled")]
    /\ insts' = [r \in DOMAIN insts |-> [insts[r] EXCEPT !.task_queue = << >>]]
    /\ UNCHANGED <<browsers, running, waiters, ret>>

\* asyncio.create_task(manager.process_queues()), or a caller awaiting it:
\* the coroutine exists but has not run line 154 yet.
StartLoop(l) ==
    /\ loops[l].pc \in {"idle", "done"}
    /\ loops' = [loops EXCEPT ![l] = NewLoop("scheduled")]
    /\ UNCHANGED <<browsers, insts, running, waiters, ret>>

\* Line 154 and the first pass of the loop.
Begin(l) ==
    /\ loops[l].pc = "scheduled"
    /\ running' = TRUE
    /\ Iterate(l, TRUE)
    /\ UNCHANGED <<browsers, waiters, ret>>

\* The sleep of line 197 is over: test self.running and scan again.
Wake(l) ==
    /\ loops[l].pc = "sleep"
    /\ Iterate(l, running)
    /\ UNCHANGED <<browsers, running, waiters, ret>>

\* The finally clause (line 194).  (Faulty variant first: no finally
\* clause.)
BusyLeftSet(b) == b
BusyCleared(b) == [b EXCEPT !.is_busy = FALSE]

\* Faulty variants of TaskFailed: the failed task goes back to the queue;
\* the busy flag stays set; the error leaves the while loop.
TaskFailedRequeues(l) ==
    /\ insts' = [insts EXCEPT ![loops[l].ref] =
                    BusyCleared([@ EXCEPT !.task_queue = Append(@, loops[l].task)])]
    /\ loops' = [loops EXCEPT ![l] = LoopIdle("sleep", @)]
TaskFailedStaysBusy(l) ==
    /\ loops' = [loops EXCEPT ![l] = LoopIdle("sleep", @)]
    /\ UNCHANGED insts
TaskFailedEndsLoop(l) ==
    /\ insts' = [insts EXCEPT ![loops[l].ref] = BusyCleared(@)]
    /\ loops' = [loops EXCEPT ![l] = LoopIdle("done", @)]

\* Faulty variant of TaskFailed: a failed task moves last_active too.
TaskFailedStamps(l) ==
    /\ insts' = [insts EXCEPT ![loops[l].ref] =
            BusyCleared([@ EXCEPT !.last_active = loops[l].task.task_args[2]])]
    /\ loops' = [loops EXCEPT ![l] = LoopIdle("sleep", @)]

\* except + finally (lines 189-194) and on to the sleep: the error is
\* printed, nothing is appended to results, the busy flag is cleared.
TaskFailed(l) ==
    /\ insts' = [insts EXCEPT ![loops[l].ref] = BusyCleared(@)]
    /\ loops' = [loops EXCEPT ![l] = LoopIdle("sleep", @)]

\* The record of lines 179-184 (the wall-clock timestamp is left out).
ResultRecord(task) ==
    [task_type |-> task.task_type, task_args |-> task.task_args, result |-> "ok"]

\* Faulty variant of TaskSucceeded: the new record replaces the list.
TaskSucceededReplaces(l) ==
    /\ insts' = [insts EXCEPT ![loops[l].ref] =
            BusyCleared([@ EXCEPT !.results = <<ResultRecord(loops[l].task)>>,
                                  !.last_active = loops[l].task.task_args[2]])]
    /\ loops' = [loops EXCEPT ![l] = LoopIdle("sleep", @)]

\* Faulty variant of TaskSucceeded: the busy flag is not cleared after a
\* task that succeeded.
TaskSucceededStaysBusy(l) ==
    /\ insts' = [insts EXCEPT ![loops[l].ref] =
            [@ EXCEPT !.results = Append(@, ResultRecord(loops[l].task)),
                      !.last_active = loops[l].task.task_args[2]]]
    /\ loops' = [loops EXCEPT ![l] = LoopIdle("sleep", @)]

\* Faulty variant of TaskSucceeded: the record goes to the results of the
\* first registered browser, whichever browser the task was popped from.
TaskSucceededElsewhere(l) ==
    /\ insts' = [insts EXCEPT
            ![loops[l].ref] = BusyCleared([@ EXCEPT
                                  !.last_active = loops[l].task.task_args[2]]),
            ![browsers[1].ref].results = Append(@, ResultRecord(loops[l].task))]
    /\ loops' = [loops EXCEPT ![l] = LoopIdle("sleep", @)]

\* Lines 179-187, then finally and the sleep.
TaskSucceeded(l) ==
    /\ insts' = [insts EXCEPT ![loops[l].ref] =
            BusyCleared([@ EXCEPT !.results = Append(@, ResultRecord(loops[l].task)),
                                  !.last_active = loops[l].task.task_args[2]])]
    /\ loops' = [loops EXCEPT ![l] = LoopIdle("sleep", @)]

\* Faulty variant of FocusDone: an error of the focus switch is ignored and
\* the task is executed all the same.
FocusDoneIgnoresError(l, ok) ==
    /\ loops[l].pc = "focus"
    /\ IF loops[l].task.task_type \notin KnownTypes
       THEN TaskFailed(l)
       ELSE /\ loops' = [loops EXCEPT ![l].pc = "exec"]
            /\ UNCHANGED insts
    /\ UNCHANGED <<browsers, running, waiters, ret>>

\* Faulty variant of FocusDone: _execute_task has no else branch, a task
\* of an unknown type goes to the SDK like any other.
FocusDoneRunsUnknown(l, ok) ==
    /\ loops[l].pc = "focus"
    /\ IF ~ok
       THEN TaskFailed(l)
       ELSE /\ loops' = [loops EXCEPT ![l].pc = "exec"]
            /\ UNCHANGED insts
    /\ UNCHANGED <<browsers, running, waiters, ret>>

\* sdk.attach_to_window of _focus_browser returns (ok) or raises.  On return
\* the coroutine runs on into _execute_task, which raises at once for an
\* unknown task type and otherwise suspends in the SDK call.
FocusDone(l, ok) ==
    /\ loops[l].pc = "focus"
    /\ IF ~ok \/ loops[l].task.task_type \notin KnownTypes
       THEN TaskFailed(l)
       ELSE /\ loops' = [loops EXCEPT ![l].pc = "exec"]
            /\ UNCHANGED insts
    /\ UNCHANGED <<browsers, running, waiters, ret>>

\* The SDK call of _execute_task returns (ok) or raises.
ExecDone(l, ok) ==
    /\ loops[l].pc = "exec"
    /\ IF ok THEN TaskSucceeded(l) ELSE TaskFailed(l)
    /\ UNCHANGED <<browsers, running, waiters, ret>>

\* The readings time.time() may give at line 183.
Clock == {1, 2}

\* The record of lines 179-184 with its timestamp.
ResultRecordAt(task, ts) ==
    [task_type |-> task.task_type, task_args |-> task.task_args,
     result |-> "ok", timestamp |-> ts]

\* Lines 179-187 with the timestamp of the record kept, then finally and
\* the sleep.
TaskSucceededAt(l, ts) ==
    /\ insts' = [insts EXCEPT ![loops[l].ref] =
            BusyCleared([@ EXCEPT !.results = Append(@, ResultRecordAt(loops[l].task, ts)),
                                  !.last_active = loops[l].task.task_args[2]])]
    /\ loops' = [loops EXCEPT ![l] = LoopIdle("sleep", @)]

\* The SDK call of _execute_task returns (ok) or raises; on return the
\* record is stamped with whatever the clock reads.
ExecDoneAt(l, ok) ==
    /\ loops[l].pc = "exec"
    /\ IF ok THEN \E ts \in Clock : TaskSucceededAt(l, ts) ELSE TaskFailed(l)
    /\ UNCHANGED <<browsers, running, waiters, ret>>

----------------------------------------------------------------------------
(* _wait_for_empty_queue *)

\* The while test of line 371, negated: the waiter may return.  (Faulty
\* variant first: the test without `or browser.is_busy`.)
DrainedIgnoringBusy(b) == Len(b.task_queue) = 0
Drained(b) == Len(b.task_queue) = 0 /\ ~b.is_busy

\* One test of the while condition: return, or sleep 0.5 s.
WaitTest(w, ref) ==
    waiters' = [waiters EXCEPT ![w] =
        [pc |-> IF Drained(insts[ref]) THEN "returned" ELSE "sleep", ref |-> ref]]

\* Line 370 binds the instance once; then the first test.
WaitStart(w, n) ==
    /\ waiters[w].pc = "idle"
    /\ n \in Registered
    /\ WaitTest(w, RefOf(n))
    /\ UNCHANGED <<browsers, insts, running, loops, ret>>

\* The sleep of line 372 is over: test again.
WaitPoll(w) ==
    /\ waiters[w].pc = "sleep"
    /\ WaitTest(w, waiters[w].ref)
    /\ UNCHANGED <<browsers, insts, running, loops, ret>>

\* Faulty variant of WaitTimeout: the deadline is only enforced while the
\* awaited browsers have completed no task.
WaitTimeoutUnlessProgress ==
    /\ \E w \in DOMAIN waiters : waiters[w].pc = "sleep"
    /\ \A w \in DOMAIN waiters :
           waiters[w].pc = "sleep" => Len(insts[waiters[w].ref].results) = 0
    /\ waiters' = [w \in DOMAIN waiters |->
            IF waiters[w].pc = "sleep" THEN [waiters[w] EXCEPT !.pc = "timedout"]
                                       ELSE waiters[w]]
    /\ UNCHANGED <<browsers, insts, running, loops, ret>>

\* Faulty variant of WaitTimeout: the timeout also stops the dispatcher.
WaitTimeoutStopsLoop ==
    /\ \E w \in DOMAIN waiters : waiters[w].pc = "sleep"
    /\ waiters' = [w \in DOMAIN waiters |->
            IF waiters[w].pc = "sleep" THEN [waiters[w] EXCEPT !.pc = "timedout"]
                                       ELSE waiters[w]]
    /\ running' = FALSE
    /\ UNCHANGED <<browsers, insts, loops, ret>>

\* The deadline of asyncio.wait_for (lines 326-335) passes while the gather
\* of the waiters is not done: the waiters still sleeping are cancelled in
\* their sleep and main gets asyncio.TimeoutError.  When the deadline falls
\* is not modelled: it may pass at any moment a waiter sleeps.
WaitTimeout ==
    /\ \E w \in DOMAIN waiters : waiters[w].pc = "sleep"
    /\ waiters' = [w \in DOMAIN waiters |->
            IF waiters[w].pc = "sleep" THEN [waiters[w] EXCEPT !.pc = "timedout"]
                                       ELSE waiters[w]]
    /\ UNCHANGED <<browsers, insts, running, loops, ret>>

----------------------------------------------------------------------------
(* Specifications *)

LoopIds == DOMAIN loops
WaiterIds == DOMAIN waiters

\* What callers do: they keep to create_browser's contract ("name: A unique
\* identifier") and make at most MaxEnq queue_task calls.
Callers ==
    \/ \E n \in Names \ Registered : CreateBrowser(n)
    \/ \E r \in DOMAIN insts, ok \in BOOLEAN : AttachDone(r, ok)
    \/ \E n \in Names, t \in TaskTypes : TotalEnq < MaxEnq /\ QueueTask(n, t)
    \/ Stop
    \/ \E l \in LoopIds : StartLoop(l)

\* The steps of the process_queues coroutines.
Dispatch ==
    \/ \E l \in LoopIds : Begin(l)
    \/ \E l \in LoopIds : Wake(l)
    \/ \E l \in LoopIds, ok \in BOOLEAN : FocusDone(l, ok)
    \/ \E l \in LoopIds, ok \in BOOLEAN : ExecDone(l, ok)

\* The steps of the drain waiters.
Waits ==
    \/ \E w \in WaiterIds, n \in Names : WaitStart(w, n)
    \/ \E w \in WaiterIds : WaitPoll(w)
    \/ WaitTimeout

Next == Callers \/ Dispatch \/ Waits

Spec == Init /\ [][Next]_vars

\* The event loop resumes a coroutine whose sleep is over or whose SDK call
\* has come back, and the SDK calls come back.
Fairness ==
    \A l \in LoopsOne :
        /\ WF_vars(Begin(l))
        /\ WF_vars(Wake(l))
        /\ WF_vars(\E ok \in BOOLEAN : FocusDone(l, ok))
        /\ WF_vars(\E ok \in BOOLEAN : ExecDone(l, ok))

\* The manager and one dispatcher coroutine under that fairness, no drain
\* waiter running.
NextNoWaits == Callers \/ Dispatch
FairSpec == Init /\ [][NextNoWaits]_vars /\ Fairness

\* The manager with one loop and its callers, nobody waiting for a queue to
\* drain.
SpecNoWaits == Init /\ [][NextNoWaits]_vars

\* The same with callers that also read results.
Reads == \E n \in Names : GetResults(n)

NextReads == NextNoWaits \/ Reads

SpecReads == Init /\ [][NextReads]_vars

\* Two process_queues coroutines on one manager, no drain waiter running.
InitTwoLoops == InitWith(LoopsTwo, WaitersOne)
SpecTwoLoops == InitTwoLoops /\ [][NextNoWaits]_vars

\* The callers in the shape of main (lines 280-339): the process_queues task
\* is created once, and stop() is called only once it has been created.
StartOnce == \E l \in LoopIds : loops[l].pc = "idle" /\ StartLoop(l)

CallersMain ==
    \/ \E n \in Names \ Registered : CreateBrowser(n)
    \/ \E r \in DOMAIN insts, ok \in BOOLEAN : AttachDone(r, ok)
    \/ \E n \in Names, t \in TaskTypes : TotalEnq < MaxEnq /\ QueueTask(n, t)
    \/ StopCalled
    \/ StartOnce

NextMain == CallersMain \/ Dispatch

FairSpecMain == Init /\ [][NextMain]_vars /\ Fairness

\* One loop under the fairness of FairSpec, with callers that keep
\* queueing tasks for ever.
Refill == \E n \in Names : QueueAgain(n)

NextRefill == NextNoWaits \/ Refill

FairSpecRefill == Init /\ [][NextRefill]_vars /\ Fairness

\* A loop that is started once and never stopped, with a waiter polling a
\* queue outside any asyncio.wait_for: the callers register browsers and
\* queue tasks, the event loop resumes the dispatcher and the waiter when
\* their sleeps are over, and the SDK calls come back.
CallersRunning ==
    \/ \E n \in Names \ Registered : CreateBrowser(n)
    \/ \E r \in DOMAIN insts, ok \in BOOLEAN : AttachDone(r, ok)
    \/ \E n \in Names, t \in TaskTypes : TotalEnq < MaxEnq /\ QueueTask(n, t)
    \/ StartOnce

WaitsNoDeadline ==
    \/ \E w \in WaiterIds, n \in Names : WaitStart(w, n)
    \/ \E w \in WaiterIds : WaitPoll(w)

NextDrain == CallersRunning \/ Dispatch \/ WaitsNoDeadline

FairSpecDrain ==
    /\ Init
    /\ [][NextDrain]_vars
    /\ Fairness
    /\ \A w \in WaitersOne : WF_vars(WaitPoll(w))

\* One loop, started once and not stopped, whose records keep their
\* timestamps.
DispatchClock ==
    \/ \E l \in LoopIds : Begin(l)
    \/ \E l \in LoopIds : Wake(l)
    \/ \E l \in LoopIds, ok \in BOOLEAN : FocusDone(l, ok)
    \/ \E l \in LoopIds, ok \in BOOLEAN : ExecDoneAt(l, ok)

NextClock == CallersRunning \/ DispatchClock

SpecClock == Init /\ [][NextClock]_vars

\* main's wait (lines 325-332): one waiter per browser, gathered under one
\* asyncio.wait_for.  The gather is done when every waiter has returned.
InitGather == InitWith(LoopsOne, WaitersTwo)
SpecGather == InitGather /\ [][Next]_vars

\* The callers may also pass create_browser a name that is registered
\* already: nothing in create_browser (lines 53-75) refuses it.
CreateAgain ==
    \E n \in Registered : Len(insts) < MaxCreate /\ CreateBrowser(n)

NextDup == CreateAgain \/ Callers \/ Dispatch

SpecDup == Init /\ [][NextDup]_vars

----------------------------------------------------------------------------
(* Quantities the properties read off a state *)

\* References of the heap, whatever its current size.
Refs == 1..Cardinality(Names)

\* The dispatcher coroutines with a task of instance `ref` in flight.
InFlightOn(ref) == {l \in LoopIds : loops[l].ref = ref}

\* The ordinals of the tasks in a queue, and of the records in a results list.
QueueOrdinals(ref) ==
    [k \in DOMAIN insts[ref].task_queue |-> insts[ref].task_queue[k].task_args[2]]
ResultOrdinals(ref) ==
    [k \in DOMAIN insts[ref].results |-> insts[ref].results[k].task_args[2]]

\* Tasks of an instance popped so far, and those of them that ended in the
\* except clause.
Popped(ref) == insts[ref].enq - Len(insts[ref].task_queue)
Failed(ref) == Popped(ref) - Len(insts[ref].results) - Cardinality(InFlightOn(ref))

----------------------------------------------------------------------------
(* Properties *)

\* C1: for every browser instance, the records of its results list are in
\* the order in which their tasks were enqueued: the enqueue ordinals of the
\* records increase strictly along the list.
C1_ResultsInEnqueueOrder ==
    \A r \in DOMAIN insts :
        \A p, q \in DOMAIN insts[r].results :
            p < q => ResultOrdinals(r)[p] < ResultOrdinals(r)[q]

\* Reached: a browser with two records after one of its tasks failed in
\* between or before, the loop being stopped.
C1_Witness ==
    \E r \in DOMAIN insts :
        /\ Len(insts[r].results) >= 2
        /\ Failed(r) >= 1
        /\ ~running

\* C2: in every state, for every browser instance, at most one dispatcher
\* coroutine has a task of that instance in flight (between the pop and the
\* finally clause), and the instance is marked busy all that time.
C2_OneInFlightPerBrowser ==
    \A r \in DOMAIN insts :
        /\ Cardinality(InFlightOn(r)) <= 1
        /\ InFlightOn(r) # {} => insts[r].is_busy

\* Reached: two loops have tasks in flight at once, on two browsers, while
\* more tasks are queued behind one of them.
C2_Witness ==
    \E l1, l2 \in LoopIds :
        /\ l1 # l2
        /\ loops[l1].pc = "exec"
        /\ loops[l2].pc \in {"focus", "exec"}
        /\ Len(insts[loops[l1].ref].task_queue) > 0

\* C3: while a task of one browser is suspended in the focus or execute
\* call, the loop goes on to the other idle browsers with pending work: a
\* browser that was idle with pending work when the loop popped a task of
\* browser a and suspended on it is served before the loop pops the next
\* task of a.  With three tasks for A and one for B, B's task runs before
\* A's third.  The code violates this: the loop awaits each task inline and
\* rescans from the first browser.
C3_OthersAdvanceWhileSuspended ==
    \A l \in LoopIds : loops[l].overtaken = {}

\* C4: every popped task that is no longer in flight has exactly one record
\* in its browser's results, the failed ones included: no task has ended in
\* the except clause without a record.  The code violates this: the except
\* clause appends nothing.
C4_FailedTaskHasOneRecord ==
    \A r \in DOMAIN insts :
        /\ Failed(r) = 0
        /\ \A p, q \in DOMAIN insts[r].results :
               p # q => ResultOrdinals(r)[p] # ResultOrdinals(r)[q]

\* C5, first half: the step in which a task of a browser fails leaves that
\* browser's busy flag cleared.
C5_FailureClearsBusy ==
    \A r \in DOMAIN insts : Failed(r)' > Failed(r) => ~insts'[r].is_busy

\* C5, second half: a browser one of whose tasks has failed, with k tasks
\* popped and more queued, gets its next task popped, unless the loop is
\* stopped.
C5_NextTaskPending(r, k) ==
    /\ r \in DOMAIN insts
    /\ Failed(r) >= 1
    /\ Popped(r) = k
    /\ Len(insts[r].task_queue) > 0
C5_NextTaskPoppedOrStopped(r, k) ==
    \/ r \in DOMAIN insts /\ Popped(r) > k
    \/ ~running
    \/ \A l \in LoopIds : loops[l].pc = "done"

\* C5: after a task of a browser fails the busy flag is cleared, and the
\* next task queued for the same browser is eventually popped for execution
\* as long as the loop is not stopped.
C5_FailureDoesNotBlockBrowser ==
    /\ [][C5_FailureClearsBusy]_vars
    /\ \A r \in Refs : \A k \in 1..(MaxEnq - 1) :
           C5_NextTaskPending(r, k) ~> C5_NextTaskPoppedOrStopped(r, k)

\* Reached: a task is in flight on a browser that had a task fail before.
C5_Witness ==
    \E r \in DOMAIN insts :
        /\ Failed(r) >= 1
        /\ InFlightOn(r) # {}
        /\ running

\* C6: the step in which a task of one browser fails leaves `running` as it
\* was, takes no loop to its end, and leaves every other browser instance
\* (queue, busy flag, results and the rest) unchanged.
C6_FailureStep ==
    \A r \in DOMAIN insts :
        Failed(r)' > Failed(r) =>
            /\ running => running'
            /\ \A l \in LoopIds : loops'[l].pc = "done" => loops[l].pc = "done"
            /\ \A j \in DOMAIN insts : j # r => insts'[j] = insts[j]
            /\ browsers' = browsers
C6_FailureIsLocal == [][C6_FailureStep]_vars

\* Reached: a task of one browser has failed while the loop runs on and
\* another browser has both a record and a pending task.
C6_Witness ==
    \E r, j \in DOMAIN insts :
        /\ r # j
        /\ Failed(r) >= 1
        /\ running
        /\ \E l \in LoopIds : loops[l].pc = "sleep"
        /\ Len(insts[j].results) > 0
        /\ Len(insts[j].task_queue) > 0

\* C7: the tasks still queued for a browser are exactly the last ones
\* enqueued, in order (so tasks leave at the head, once, and none comes
\* back); a task in flight is neither queued nor recorded; no two records
\* are of the same task.
C7_ConsumedOnce ==
    \A r \in DOMAIN insts :
        /\ \A k \in DOMAIN insts[r].task_queue :
               QueueOrdinals(r)[k] = Popped(r) + k
        /\ \A p \in DOMAIN insts[r].results : ResultOrdinals(r)[p] <= Popped(r)
        /\ \A p, q \in DOMAIN insts[r].results :
               p # q => ResultOrdinals(r)[p] # ResultOrdinals(r)[q]
        /\ \A l \in InFlightOn(r) :
               /\ loops[l].task.task_args[2] <= Popped(r)
               /\ \A p \in DOMAIN insts[r].results :
                      ResultOrdinals(r)[p] # loops[l].task.task_args[2]

\* Reached: a task has failed, a later task of the same browser is in
\* flight and a third is still queued.
C7_Witness ==
    \E r \in DOMAIN insts :
        /\ Failed(r) >= 1
        /\ InFlightOn(r) # {}
        /\ Len(insts[r].task_queue) > 0

\* C8, step by step, for the loop l between its first pass and its exit:
\* a task is popped only in a step that leaves `running` true; a loop with
\* a task in flight goes on with that task or to the sleep that follows it,
\* whatever `running` is; and the step in which the loop exits changes no
\* browser instance.
C8_Step ==
    \A l \in LoopIds :
        /\ (\E r \in DOMAIN insts : Popped(r)' > Popped(r)) => running'
        /\ loops[l].pc \in {"focus", "exec"} =>
               loops'[l].pc \in {"focus", "exec", "sleep"}
        /\ (loops[l].pc # "done" /\ loops'[l].pc = "done") =>
               /\ loops[l].pc = "sleep"
               /\ insts' = insts

\* C8: once stop() has been called while the loop is running, no further
\* task is popped, the task in flight is carried through, the queues are
\* left as they are, and the loop exits.
C8_StopEndsLoopAfterCurrentTask ==
    /\ [][C8_Step]_vars
    /\ \A l \in LoopsOne :
           (~running /\ loops[l].pc \in {"focus", "exec", "sleep"})
               ~> (loops[l].pc = "done")

\* Reached: the loop has exited on a stop that came while a task was in
\* flight: that task has its record and another is still queued.
C8_Witness ==
    \E r \in DOMAIN insts :
        /\ ~running
        /\ \A l \in LoopIds : loops[l].pc = "done"
        /\ Len(insts[r].results) = 1
        /\ Len(insts[r].task_queue) > 0
        /\ Failed(r) = 0

\* C9: once the loop has exited, every task ever enqueued is either still
\* in its browser's queue or has exactly one record in that browser's
\* results.  The code violates this for the tasks that failed.
C9_NoTaskLostAtExit ==
    (\A l \in LoopIds : loops[l].pc = "done") =>
        \A r \in DOMAIN insts : \A k \in 1..insts[r].enq :
            LET queued == {p \in DOMAIN insts[r].task_queue : QueueOrdinals(r)[p] = k}
                recorded == {p \in DOMAIN insts[r].results : ResultOrdinals(r)[p] = k}
            IN  \/ Cardinality(queued) = 1 /\ recorded = {}
                \/ queued = {} /\ Cardinality(recorded) = 1

\* C10: the step in which a drain waiter returns is taken in a state where
\* the queue of the instance it waits for is empty and the instance is not
\* busy.
C10_Step ==
    \A w \in WaiterIds :
        (waiters[w].pc # "returned" /\ waiters'[w].pc = "returned") =>
            /\ Len(insts'[waiters'[w].ref].task_queue) = 0
            /\ ~insts'[waiters'[w].ref].is_busy
C10_WaiterReturnsOnlyWhenDrained == [][C10_Step]_vars

\* Reached: a waiter has returned for a browser two of whose tasks have
\* been executed.
C10_Witness ==
    \E w \in WaiterIds :
        /\ waiters[w].pc = "returned"
        /\ Len(insts[waiters[w].ref].results) >= 2

\* C11, step by step: a waiter that has timed out never polls or returns
\* again; a waiter times out only out of its sleep, that is after a test
\* that found its browser not drained, and the step changes nothing else;
\* and while a waiter sleeps the timeout can strike, whatever number of
\* tasks of its browser have completed.
C11_Step ==
    \A w \in WaiterIds :
        /\ waiters[w].pc = "timedout" => waiters'[w] = waiters[w]
        /\ (waiters[w].pc # "timedout" /\ waiters'[w].pc = "timedout") =>
               /\ waiters[w].pc = "sleep"
               /\ waiters'[w].ref = waiters[w].ref
        /\ waiters[w].pc = "sleep" => ENABLED WaitTimeout

\* C11: the wait for a browser to drain ends in a timeout when the deadline
\* passes before the waiter has seen the browser drained, however many of
\* its tasks have completed, and a wait that has timed out does not go on.
C11_WaitTimesOutAtDeadline == [][C11_Step]_vars

\* Reached: a wait has timed out on a browser that has completed a task and
\* still has one queued.
C11_Witness ==
    \E w \in WaiterIds :
        /\ waiters[w].pc = "timedout"
        /\ Len(insts[waiters[w].ref].results) >= 1
        /\ Len(insts[waiters[w].ref].task_queue) >= 1

\* C12: registering a name that is registered already is refused and
\* leaves the existing instance in place: every instance ever created is
\* still the one the manager holds under its name, so its queue and its
\* results are still the ones of that name.
C12_DuplicateRefused ==
    \A r \in DOMAIN insts :
        insts[r].name \in Registered /\ RefOf(insts[r].name) = r

\* C13, step by step: a queue_task call for a registered name puts the new
\* task behind the tasks queued for that browser, which keep their places,
\* and leaves the other queues alone; a call for a name that is not
\* registered raises ValueError and leaves every queue as it was.
C13_Step ==
    \A n \in Names, t \in TaskTypes :
        QueueTask(n, t) =>
            IF n \in Registered
               THEN LET r == RefOf(n)
                        q == insts[r].task_queue
                        q2 == insts'[r].task_queue
                    IN /\ ret'.res = "ok"
                       /\ Len(q2) = Len(q) + 1
                       /\ SubSeq(q2, 1, Len(q)) = q
                       /\ q2[Len(q2)].task_type = t
                       /\ \A o \in DOMAIN insts \ {r} :
                              insts'[o].task_queue = insts[o].task_queue
               ELSE /\ ret' = [op |-> "queue_task", res |-> "ValueError"]
                    /\ \A o \in DOMAIN insts :
                           insts'[o].task_queue = insts[o].task_queue

\* C13: queue_task appends to the tail of the queue of a registered browser
\* (one entry more, the others in their order) and fails with ValueError,
\* changing no queue, for a name that is not registered.
C13_QueueTaskAppendsOrFails == [][C13_Step]_vars

\* Reached: a queue_task call has been refused for an unregistered name
\* while a registered browser holds three queued tasks in enqueue order.
C13_Witness ==
    /\ ret = [op |-> "queue_task", res |-> "ValueError"]
    /\ \E r \in DOMAIN insts :
           /\ Len(insts[r].task_queue) = 3
           /\ \A i \in 1..3 : insts[r].task_queue[i].task_args[2] = i

\* C14, step by step: a queue_task call for a registered name succeeds and
\* appends whether or not the browser is busy and whether or not a loop
\* runs, and it changes no busy flag, no loop and not the running flag; the
\* call is possible in every state.
C14_Step ==
    \A n \in Registered, t \in TaskTypes :
        /\ ENABLED QueueTask(n, t)
        /\ QueueTask(n, t) =>
               /\ ret'.res = "ok"
               /\ Len(insts'[RefOf(n)].task_queue) = Len(insts[RefOf(n)].task_queue) + 1
               /\ \A o \in DOMAIN insts : insts'[o].is_busy = insts[o].is_busy
               /\ loops' = loops
               /\ running' = running

\* C14: queue_task neither waits for nor looks at the busy flag or the
\* loop: a task queued while the browser has a task in flight is appended
\* and leaves the busy flag and the task in flight as they are.
C14_QueueTaskIgnoresBusy == [][C14_Step]_vars

\* Reached: a browser has its second task in flight, the loop has been told
\* to stop, and the task queued last for the browser is still waiting in
\* its queue after a successful queue_task call.
C14_Witness ==
    \E r \in DOMAIN insts, l \in LoopIds :
        /\ loops[l].ref = r
        /\ loops[l].task.task_args[2] = 2
        /\ insts[r].is_busy
        /\ ~running
        /\ Len(insts[r].task_queue) >= 1
        /\ ret = [op |-> "queue_task", res |-> "ok"]

\* C15, step by step: whenever a loop takes a task off the queue of a
\* browser, that browser was registered, not busy and had a task queued,
\* and every browser registered before it was busy or had an empty queue.
C15_Step ==
    \A r \in DOMAIN insts :
        Popped(r)' > Popped(r) =>
            \E p \in DOMAIN browsers :
                /\ browsers[p].ref = r
                /\ ~insts[r].is_busy
                /\ Len(insts[r].task_queue) > 0
                /\ \A j \in 1..(p - 1) :
                       \/ insts[browsers[j].ref].is_busy
                       \/ Len(insts[browsers[j].ref].task_queue) = 0

\* C15: each scan selects the first browser in registration order that is
\* not busy and has a task queued; a busy browser or one with an empty
\* queue is never selected and no eligible browser registered earlier is
\* passed over.
C15_FirstEligibleSelected == [][C15_Step]_vars

\* Reached: with two loops, one has a task of the first registered browser
\* in flight, and the other has passed over that busy browser, whose queue
\* is not empty, and has a task of the second registered browser in flight.
C15_Witness ==
    /\ Len(browsers) = 2
    /\ Len(insts[browsers[1].ref].task_queue) > 0
    /\ \E l1, l2 \in LoopIds :
           /\ loops[l1].ref = browsers[1].ref
           /\ loops[l2].ref = browsers[2].ref
           /\ loops[l1].pc = "exec"
           /\ loops[l2].pc = "focus"

\* C16, step by step: in every step the results list of every instance
\* keeps its records, unchanged and in place, and at most gains records at
\* its end.
C16_Step ==
    \A r \in DOMAIN insts :
        /\ Len(insts'[r].results) >= Len(insts[r].results)
        /\ SubSeq(insts'[r].results, 1, Len(insts[r].results)) = insts[r].results

\* C16: each results list is append-only: it never gets shorter, a record
\* in it is never changed or removed, and what was read from it earlier is
\* a prefix of what is read later.
C16_ResultsAppendOnly == [][C16_Step]_vars

\* Reached: a results list of three records.
C16_Witness == \E r \in DOMAIN insts : Len(insts[r].results) = 3

\* C17, step by step: a new instance has no window; an instance gets its
\* window only in the step that ends its create_browser call, and not in
\* that step when attaching failed.
C17_Step ==
    /\ \A r \in DOMAIN insts' \ DOMAIN insts : ~insts'[r].window_info
    /\ \A r \in DOMAIN insts :
           /\ (~insts[r].window_info /\ insts'[r].window_info) => AttachDone(r, TRUE)
           /\ AttachDone(r, FALSE) => ~insts'[r].window_info

\* C17: window_info is None from the creation of the instance until an
\* attach to a window has succeeded, and stays None when the attach step of
\* create_browser fails.
C17_WindowOnlyAfterAttach == [][C17_Step]_vars

\* Reached: create_browser has ended for two browsers, with a window for
\* one and, the attach having failed, without a window for the other.
C17_Witness ==
    \E r1, r2 \in DOMAIN insts :
        /\ ~insts[r1].creating /\ ~insts[r1].window_info
        /\ ~insts[r2].creating /\ insts[r2].window_info

\* C18, step by step: a loop gets into the SDK call of _execute_task only
\* by a focus switch that returned, with the task it switched focus for; a
\* focus switch that raised ends the task without that call and without a
\* record; and a loop is in neither call for a browser without a window.
C18_Step ==
    \A l \in LoopIds :
        /\ (loops[l].pc # "exec" /\ loops'[l].pc = "exec") =>
               /\ FocusDone(l, TRUE)
               /\ loops'[l].task = loops[l].task
               /\ loops'[l].ref = loops[l].ref
        /\ FocusDone(l, FALSE) =>
               /\ loops'[l].pc = "sleep"
               /\ insts'[loops[l].ref].results = insts[loops[l].ref].results
        /\ loops'[l].pc \in {"focus", "exec"} => insts'[loops'[l].ref].window_info

\* C18: the execution of a task taken off the queue starts only after the
\* focus switch to its browser has succeeded; when the focus switch fails,
\* a missing window included, the task is never executed.
C18_ExecuteOnlyAfterFocus == [][C18_Step]_vars

\* Reached: a task is being executed for a browser one of whose earlier
\* tasks failed, while a browser without a window has lost a task too.
C18_Witness ==
    \E l \in LoopIds, r \in DOMAIN insts :
        /\ loops[l].pc = "exec"
        /\ Failed(loops[l].ref) >= 1
        /\ ~insts[r].creating /\ ~insts[r].window_info
        /\ Failed(r) >= 1

\* C19, step by step: a get_results call for a name that is not registered
\* raises ValueError; a call for a registered name returns the records of
\* the instance bound to the name, in the order in which their tasks were
\* executed; either way the call changes nothing of the manager.
C19_Step ==
    \A n \in Names :
        GetResults(n) =>
            /\ IF n \notin Registered
                  THEN ret' = [op |-> "get_results", res |-> "ValueError"]
                  ELSE /\ ret'.res = "ok"
                       /\ ret'.val = insts[RefOf(n)].results
                       /\ \A i, j \in DOMAIN ret'.val :
                              i < j => ret'.val[i].task_args[2] < ret'.val[j].task_args[2]
            /\ UNCHANGED <<browsers, insts, running, loops>>

\* C19: get_results fails with ValueError for an unregistered name and, for
\* a registered one, returns its records in execution order without
\* changing a queue, a busy flag, a results list or the running flag.
C19_GetResultsReadsOnly == [][C19_Step]_vars

\* Reached: get_results has returned two records for a browser that has a
\* task in flight and another one queued.
C19_Witness ==
    /\ ret.op = "get_results"
    /\ ret.res = "ok"
    /\ Len(ret.val) = 2
    /\ \E r \in DOMAIN insts :
           /\ insts[r].results = ret.val
           /\ insts[r].is_busy
           /\ Len(insts[r].task_queue) = 1

\* The scenario of C20: A and B are registered and attached, three tasks
\* have been queued for A and one for B, all of a known type, none has
\* failed, and the loop runs.
C20_Scenario ==
    /\ {"A", "B"} \subseteq Registered
    /\ insts[RefOf("A")].window_info /\ insts[RefOf("B")].window_info
    /\ insts[RefOf("A")].enq = 3 /\ insts[RefOf("B")].enq = 1
    /\ \A r \in DOMAIN insts :
           /\ Failed(r) = 0
           /\ \A i \in DOMAIN insts[r].task_queue :
                  insts[r].task_queue[i].task_type \in KnownTypes
    /\ \A l \in LoopIds :
           /\ loops[l].pc \in {"sleep", "focus", "exec"}
           /\ loops[l].ref # 0 => loops[l].task.task_type \in KnownTypes
    /\ running

\* The end of the scenario: three records for A in enqueue order, one for
\* B, both browsers drained.
C20_Done ==
    /\ {"A", "B"} \subseteq Registered
    /\ ResultOrdinals(RefOf("A")) = <<1, 2, 3>>
    /\ ResultOrdinals(RefOf("B")) = <<1>>
    /\ Drained(insts[RefOf("A")]) /\ Drained(insts[RefOf("B")])

\* What the scenario excludes: an execution or a focus switch failed, the
\* loop was stopped, or more tasks were queued.
C20_Off ==
    \/ ~running
    \/ \E r \in DOMAIN insts : Failed(r) > 0
    \/ \E r \in DOMAIN insts :
           insts[r].enq > (IF insts[r].name = "A" THEN 3 ELSE 1)

\* C20: with A and B registered and attached, three tasks queued for A and
\* one for B, the loop running and every execution succeeding, the manager
\* gets to a state where A has three records in enqueue order, B has one,
\* and both are drained.
C20_ScenarioCompletes == C20_Scenario ~> (C20_Done \/ C20_Off)

\* Reached: the end of the scenario with the loop still running and no
\* task failed.
C20_Witness ==
    /\ C20_Done
    /\ running
    /\ \A r \in DOMAIN insts : Failed(r) = 0

\* C21, step by step: in the step in which the last of the gathered
\* waiters returns, so that the combined wait succeeds, every browser
\* waited for has an empty queue and is not busy.
C21_Step ==
    ((\E w \in WaiterIds : waiters[w].pc # "returned")
        /\ (\A w \in WaiterIds : waiters'[w].pc = "returned")) =>
    \A w \in WaiterIds : Drained(insts'[waiters'[w].ref])

\* C21: a wait gathered over several browsers succeeds only when all of
\* them are drained at the instant it returns, also when tasks are queued
\* for one browser while another is still waited for.  The code violates
\* this: a waiter that has returned no longer watches its browser.
C21_GatherReturnsAllDrained == [][C21_Step]_vars

\* C22, step by step: the step in which a wait times out changes no
\* browser instance (queue, busy flag, results), no loop and its task in
\* flight, not the dict and not the running flag.
C22_Step ==
    (\E w \in WaiterIds : waiters[w].pc # "timedout" /\ waiters'[w].pc = "timedout")
        => UNCHANGED <<browsers, insts, running, loops>>

\* C22: a timeout of the drain wait leaves the dispatcher as it is: queues,
\* busy flags, the task in flight and the results are untouched by it and
\* the loop runs on until stop() is called.
C22_TimeoutLeavesDispatcherAlone == [][C22_Step]_vars

\* Reached: the wait for a browser has timed out, and the loop, still
\* running, has since drained that browser and recorded two of its tasks.
C22_Witness ==
    \E w \in WaiterIds :
        /\ waiters[w].pc = "timedout"
        /\ running
        /\ Drained(insts[waiters[w].ref])
        /\ Len(insts[waiters[w].ref].results) = 2

\* C23: in every state a browser instance is marked busy exactly when one
\* loop has a task of it in flight: the mark is there from the step that
\* pops the task, and it is gone after the step that ends the task, however
\* it ends, so no instance is busy with nothing in flight.
C23_BusyExactlyWhileInFlight ==
    \A r \in DOMAIN insts :
        insts[r].is_busy <=> Cardinality(InFlightOn(r)) = 1

\* Reached: one browser has a task in flight and is busy, while another is
\* idle again after one of its tasks has succeeded and two have failed.
C23_Witness ==
    \E r, j \in DOMAIN insts :
        /\ insts[r].is_busy /\ InFlightOn(r) # {}
        /\ ~insts[j].is_busy
        /\ Len(insts[j].results) >= 1
        /\ Failed(j) >= 2

\* C24, step by step, with two loops on one manager: a step pops a task
\* of at most one browser, and only one task; that browser was not busy and
\* no loop had a task of it in flight; after the step the loop that popped
\* is the only one that holds a task of it.
C24_Step ==
    /\ \A r \in DOMAIN insts :
           Popped(r)' > Popped(r) =>
               /\ Popped(r)' = Popped(r) + 1
               /\ ~insts[r].is_busy
               /\ InFlightOn(r) = {}
               /\ Cardinality(InFlightOn(r)') <= 1
               /\ \A j \in DOMAIN insts \ {r} : Popped(j)' = Popped(j)
    /\ \A l1, l2 \in LoopIds :
           (l1 # l2 /\ loops'[l1].ref # 0) => loops'[l1].ref # loops'[l2].ref

\* C24: the scan, the busy mark and the pop are one step: also with two
\* process_queues loops on one manager no two loops select the same
\* browser, since none can scan while another is between its scan and its
\* busy mark.
C24_SelectionAtomic == [][C24_Step]_vars

\* Reached: one loop holds a task of the first registered browser, which
\* has another task queued, and the other loop holds a task of the second;
\* both are in their focus switch.
C24_Witness ==
    /\ Len(browsers) = 2
    /\ \E l1, l2 \in LoopIds :
           /\ loops[l1].ref = browsers[1].ref
           /\ loops[l2].ref = browsers[2].ref
           /\ loops[l1].pc = "focus"
           /\ loops[l2].pc = "focus"
    /\ Len(insts[browsers[1].ref].task_queue) >= 1

C25_Step ==
    \A r \in DOMAIN insts :
        /\ Popped(r)' > Popped(r) => insts'[r].last_active = insts[r].last_active
        /\ Failed(r)' > Failed(r) => insts'[r].last_active = insts[r].last_active
        /\ Len(insts'[r].results) > Len(insts[r].results) =>
               insts'[r].last_active = ResultOrdinals(r)'[Len(insts'[r].results)]
        /\ insts'[r].last_active # insts[r].last_active =>
               \/ Len(insts'[r].results) > Len(insts[r].results)
               \/ AttachDone(r, TRUE)

C26_NoneEligible ==
    \A k \in DOMAIN browsers :
        \/ insts[browsers[k].ref].is_busy
        \/ Len(insts[browsers[k].ref].task_queue) = 0

\* C26, step by step: a pass of the loop that finds no browser idle with
\* a task queued changes no browser instance and not the dict and leaves
\* the loop in its sleep; a pass after a sleep leaves the running flag as
\* it was (the first pass follows line 154, which sets it).
C26_Step ==
    \A l \in LoopIds :
        (C26_NoneEligible /\ (Begin(l) \/ (running /\ Wake(l)))) =>
            /\ insts' = insts
            /\ browsers' = browsers
            /\ loops'[l].pc = "sleep"
            /\ loops[l].pc = "sleep" => running' = running

\* C26: when no browser is idle with pending work, a pass of the loop only
\* sleeps and scans again: no queue, busy flag or results list changes and
\* the running flag stays as it is.
C26_IdlePassChangesNothing == [][C26_Step]_vars

\* Reached: with the loops running, one loop sleeps while the only work
\* pending is a task queued for a browser that is busy with another loop.
C26_Witness ==
    /\ C26_NoneEligible
    /\ running
    /\ \E l1, l2 \in LoopIds :
           /\ loops[l1].pc = "sleep"
           /\ loops[l2].pc = "exec"
           /\ Len(insts[loops[l2].ref].task_queue) > 0

\* C27: no external operation is invoked for a task of an unknown type:
\* no loop is ever suspended in a call of the SDK, focus switch or
\* execution, with such a task in hand.  The code does not keep to this:
\* the focus switch comes before the type is looked at.
C27_NoExternalCallForUnknownType ==
    \A l \in LoopIds :
        loops[l].pc \in {"focus", "exec"} => loops[l].task.task_type \in KnownTypes

\* C27 amended, step by step: no loop gets into the SDK call of
\* _execute_task with a task of an unknown type; the step that ends the
\* focus switch for such a task leaves the loop in its sleep, not at its
\* end, the browser idle, its queue as it was (the task is not put back),
\* its results as they were, and the running flag as it was.
C27_Step ==
    \A l \in LoopIds :
        /\ loops'[l].pc = "exec" => loops'[l].task.task_type \in KnownTypes
        /\ (/\ loops[l].pc = "focus"
            /\ loops[l].task.task_type \notin KnownTypes
            /\ loops'[l] # loops[l]) =>
               /\ loops'[l].pc = "sleep"
               /\ ~insts'[loops[l].ref].is_busy
               /\ insts'[loops[l].ref].task_queue = insts[loops[l].ref].task_queue
               /\ insts'[loops[l].ref].results = insts[loops[l].ref].results
               /\ running' = running

\* C27 amended: a task whose type is none of execute_action, see,
\* press_key and scroll is popped and its browser is given the focus, like
\* for any task; then it fails: no execute operation is invoked for it, it
\* is not put back on the queue, the busy flag is cleared and the loop goes
\* on.
C27_UnknownTypeFailsAfterFocus == [][C27_Step]_vars

\* Reached: the focus switch for a task of an unknown type is under way on
\* a browser that has a record, a failed task and another task queued.
C27_Witness ==
    \E l \in LoopIds :
        /\ loops[l].pc = "focus"
        /\ loops[l].task.task_type \notin KnownTypes
        /\ Len(insts[loops[l].ref].results) >= 1
        /\ Failed(loops[l].ref) >= 1
        /\ Len(insts[loops[l].ref].task_queue) >= 1

\* C28: once stop() has been called on a manager whose process_queues
\* task exists, the loop exits, whether the task was already iterating or
\* had been created and not yet run.  The code violates the second case:
\* the first step of the coroutine sets self.running = True (line 154) and
\* so undoes a stop() that came before it.
C28_StopEndsLoop ==
    \A l \in LoopsOne :
        (ret.op = "stop" /\ loops[l].pc \in {"scheduled", "sleep", "focus", "exec"})
            ~> (loops[l].pc = "done")

\* A task is queued for the attached, idle browser r, all browsers have
\* their windows, and the loop is running.
C29_Waiting(r) ==
    /\ r \in DOMAIN insts
    /\ \A j \in DOMAIN insts : insts[j].window_info
    /\ ~insts[r].is_busy
    /\ Len(insts[r].task_queue) > 0
    /\ running
    /\ \A l \in LoopIds : loops[l].pc \in {"sleep", "focus", "exec"}

\* The loop has taken a task of r off its queue, or has been stopped.
C29_Served(r) ==
    \/ r \in DOMAIN insts /\ (insts[r].is_busy \/ Len(insts[r].task_queue) = 0)
    \/ ~running
    \/ \A l \in LoopIds : loops[l].pc = "done"

\* C29: selection is free of starvation: while the loop runs and every
\* execution comes to an end, a task queued for an attached browser is
\* eventually taken off its queue, also when browsers registered before it
\* keep getting new tasks.  The code violates this: every scan starts at
\* the first registered browser.
C29_NoStarvation ==
    \A r \in Refs : C29_Waiting(r) ~> C29_Served(r)

C31_Step ==
    /\ \A l \in LoopIds :
           (loops[l].ref = 0 /\ loops'[l].ref # 0) =>
               loops'[l].task = Head(insts[loops'[l].ref].task_queue)
    /\ \A r \in DOMAIN insts :
           /\ Len(insts'[r].results) > Len(insts[r].results) =>
                  \E l \in InFlightOn(r) :
                      LET rec == insts'[r].results[Len(insts'[r].results)]
                      IN  /\ rec.task_type = loops[l].task.task_type
                          /\ rec.task_args = loops[l].task.task_args
           /\ \A k \in DOMAIN insts'[r].task_queue :
                  /\ insts'[r].task_queue[k].task_args[1] = insts'[r].name
                  /\ insts'[r].task_queue[k].task_args[2] \in 1..insts'[r].enq
           /\ \A k \in DOMAIN insts'[r].results :
                  /\ insts'[r].results[k].task_args[1] = insts'[r].name
                  /\ insts'[r].results[k].task_args[2] \in 1..insts'[r].enq
                  /\ insts'[r].results[k].task_type \in TaskTypes
           /\ Len(insts'[r].results) <= Popped(r)'

\* C31: every record of a browser is the record of a task that was queued
\* for that browser, with its type and arguments; no task leaves a record
\* with another browser; and a browser never has more records than tasks
\* taken off its queue.
C31_RecordsMatchTasks == [][C31_Step]_vars

\* Reached: both browsers have records, one of them two records and a task
\* that failed.
C31_Witness ==
    \E r, j \in DOMAIN insts :
        /\ r # j
        /\ Len(insts[r].results) = 2
        /\ Failed(r) >= 1
        /\ Len(insts[j].results) >= 1

\* C32, step by step: a queue_task call leaves the registry, the running
\* flag, the loop and the waiters as they are, and of every instance the
\* busy flag, the results, the window handle and the activity stamp; the
\* only queue it may change is the one of the browser named.
C32_Step ==
    \A n \in Names, t \in TaskTypes :
        QueueTask(n, t) =>
            /\ browsers' = browsers
            /\ running' = running
            /\ loops' = loops
            /\ waiters' = waiters
            /\ DOMAIN insts' = DOMAIN insts
            /\ \A o \in DOMAIN insts :
                   /\ insts'[o].is_busy = insts[o].is_busy
                   /\ insts'[o].results = insts[o].results
                   /\ insts'[o].window_info = insts[o].window_info
                   /\ insts'[o].last_active = insts[o].last_active
                   /\ insts'[o].name = insts[o].name
                   /\ (n \notin Registered \/ o # RefOf(n)) =>
                          insts'[o].task_queue = insts[o].task_queue

\* C32: queue_task for a browser changes that browser's queue and nothing
\* else: the other queues, every busy flag, every results list, every
\* window handle and the running flag stay as they were.
C32_QueueTaskFrame == [][C32_Step]_vars

\* Reached: a queue_task call has just succeeded while the loop runs with a
\* task in flight, the browser queued for has a record, and another browser
\* has tasks of its own waiting.
C32_Witness ==
    /\ ret = [op |-> "queue_task", res |-> "ok"]
    /\ running
    /\ \E l \in LoopIds : loops[l].ref # 0
    /\ \E r, j \in DOMAIN insts :
           /\ r # j
           /\ insts[r].task_queue # << >>
           /\ insts[r].task_queue[Len(insts[r].task_queue)].task_args[2] = insts[r].enq
           /\ insts[r].results # << >>
           /\ insts[j].task_queue # << >>

\* The dispatcher has been started (and, in FairSpecDrain, is never
\* stopped).
C33_LoopStarted == \A l \in LoopIds : loops[l].pc # "idle"

\* Browser r was registered but its attach failed.
C33_Unattached(r) ==
    /\ r \in DOMAIN insts
    /\ ~insts[r].creating
    /\ ~insts[r].window_info

\* C33: with the loop started and not stopped, the SDK calls coming back
\* and the callers queueing finitely many tasks, every browser with tasks
\* queued gets drained (empty queue, not busy) and a waiter sleeping on a
\* browser returns; a browser whose attach failed is drained too, every one
\* of its tasks consumed as a failure and none recorded.
C33_DrainsAndWaiterReturns ==
    /\ \A r \in Refs :
           (C33_LoopStarted /\ r \in DOMAIN insts /\ insts[r].task_queue # << >>)
               ~> /\ r \in DOMAIN insts
                  /\ Drained(insts[r])
                  /\ C33_Unattached(r) =>
                         insts[r].results = << >> /\ Failed(r) = insts[r].enq
    /\ \A w \in WaitersOne :
           (C33_LoopStarted /\ waiters[w].pc = "sleep")
               ~> waiters[w].pc = "returned"

\* Reached: a waiter has returned from a browser whose attach failed and
\* whose two tasks were both consumed as failures, while the loop runs and
\* the other browser is drained with a record of its own.
C33_Witness ==
    \E w \in WaiterIds, j \in DOMAIN insts :
        /\ waiters[w].pc = "returned"
        /\ C33_Unattached(waiters[w].ref)
        /\ Failed(waiters[w].ref) = 2
        /\ Drained(insts[waiters[w].ref])
        /\ j # waiters[w].ref
        /\ Len(insts[j].results) >= 1
        /\ Drained(insts[j])
        /\ running

\* C34, step by step: stop() and a new process_queues call leave every
\* browser instance, its queue included, as it is; the first pass of the
\* newly started loop sets `running` and, if a browser is eligible, takes
\* the head of that browser's remaining queue, which is the task enqueued
\* next after the ones already taken, and touches no other browser; and
\* after every step the records of a browser are in enqueue order without
\* repetition, with any task in flight later than all of them.
C34_Step ==
    /\ Stop => insts' = insts
    /\ \A l \in LoopIds :
           StartLoop(l) => insts' = insts /\ running' = running
    /\ \A l \in LoopIds :
           Begin(l) =>
               /\ running'
               /\ LET nb == NextBrowser IN
                  IF nb = 0
                     THEN insts' = insts
                     ELSE LET q == insts[nb].task_queue IN
                          /\ insts'[nb].task_queue = Tail(q)
                          /\ Head(q).task_args[2] = Popped(nb) + 1
                          /\ insts'[nb].results = insts[nb].results
                          /\ loops'[l].ref # 0 =>
                                 loops'[l].ref = nb /\ loops'[l].task = Head(q)
                          /\ \A o \in DOMAIN insts \ {nb} : insts'[o] = insts[o]
    /\ \A r \in DOMAIN insts' :
           /\ \A a, b \in DOMAIN insts'[r].results :
                  a < b => insts'[r].results[a].task_args[2]
                               < insts'[r].results[b].task_args[2]
           /\ \A l \in LoopIds :
                  loops'[l].ref = r =>
                      \A a \in DOMAIN insts'[r].results :
                          insts'[r].results[a].task_args[2]
                              < loops'[l].task.task_args[2]

\* C34: a loop started again after stop() goes on from the queues as they
\* were left: the pending tasks are taken in their enqueue order and no
\* task that was taken before is taken again.
C34_RestartResumesQueue == [][C34_Step]_vars

\* Reached: the only loop has executed a task of a browser and has ended
\* after stop(), two tasks of that browser are waiting in its queue, and a
\* new process_queues call has been made that has not run its first pass.
C34_Witness ==
    \E r \in DOMAIN insts, l \in LoopIds :
        /\ loops[l].pc = "scheduled"
        /\ ~running
        /\ Len(insts[r].results) >= 1
        /\ Len(insts[r].task_queue) >= 2
        /\ Head(insts[r].task_queue).task_args[2] = Popped(r) + 1

\* The instances with the timestamps of their records taken off.
C35_Unstamped ==
    [r \in DOMAIN insts |->
        [insts[r] EXCEPT !.results =
            [k \in DOMAIN insts[r].results |->
                [task_type |-> insts[r].results[k].task_type,
                 task_args |-> insts[r].results[k].task_args,
                 result |-> insts[r].results[k].result]]]]

\* The state, and the state without the timestamps.
C35_Whole == <<browsers, insts, running, loops, waiters, ret>>
C35_View == <<browsers, C35_Unstamped, running, loops, waiters, ret>>

\* Every step of a run is a call by the callers with its arguments, or a
\* resumption of the loop with the outcome of the external call that came
\* back.  C35_RunsIdentical_Step: such a step has no second successor, so
\* two runs made of the same steps pass through the same states.
C35_RunsIdentical_Step ==
    /\ \A n \in Names :
           CreateBrowser(n) =>
               \A nxt \in {C35_Whole'} : ~ENABLED (CreateBrowser(n) /\ C35_Whole' # nxt)
    /\ \A r \in DOMAIN insts, ok \in BOOLEAN :
           AttachDone(r, ok) =>
               \A nxt \in {C35_Whole'} : ~ENABLED (AttachDone(r, ok) /\ C35_Whole' # nxt)
    /\ \A n \in Names, t \in TaskTypes :
           QueueTask(n, t) =>
               \A nxt \in {C35_Whole'} : ~ENABLED (QueueTask(n, t) /\ C35_Whole' # nxt)
    /\ \A l \in LoopIds :
           /\ StartLoop(l) =>
                  \A nxt \in {C35_Whole'} : ~ENABLED (StartLoop(l) /\ C35_Whole' # nxt)
           /\ Begin(l) =>
                  \A nxt \in {C35_Whole'} : ~ENABLED (Begin(l) /\ C35_Whole' # nxt)
           /\ Wake(l) =>
                  \A nxt \in {C35_Whole'} : ~ENABLED (Wake(l) /\ C35_Whole' # nxt)
           /\ \A ok \in BOOLEAN :
                  /\ FocusDone(l, ok) =>
                         \A nxt \in {C35_Whole'} :
                             ~ENABLED (FocusDone(l, ok) /\ C35_Whole' # nxt)
                  /\ ExecDoneAt(l, ok) =>
                         \A nxt \in {C35_Whole'} :
                             ~ENABLED (ExecDoneAt(l, ok) /\ C35_Whole' # nxt)

\* C35 as stated: two runs with the same registrations, the same enqueues
\* at the same points and the same outcomes of the external calls pass
\* through the same states, results lists included.
C35_RunsIdentical == [][C35_RunsIdentical_Step]_vars

\* C35_Step: the same with the timestamps of the records left aside: the
\* successors of a step agree on the registry, on every queue, busy flag
\* and window handle, on the task the loop has in hand, and on the type,
\* arguments and outcome of every record.
C35_Step ==
    /\ \A n \in Names :
           CreateBrowser(n) =>
               \A nxt \in {C35_View'} : ~ENABLED (CreateBrowser(n) /\ C35_View' # nxt)
    /\ \A r \in DOMAIN insts, ok \in BOOLEAN :
           AttachDone(r, ok) =>
               \A nxt \in {C35_View'} : ~ENABLED (AttachDone(r, ok) /\ C35_View' # nxt)
    /\ \A n \in Names, t \in TaskTypes :
           QueueTask(n, t) =>
               \A nxt \in {C35_View'} : ~ENABLED (QueueTask(n, t) /\ C35_View' # nxt)
    /\ \A l \in LoopIds :
           /\ StartLoop(l) =>
                  \A nxt \in {C35_View'} : ~ENABLED (StartLoop(l) /\ C35_View' # nxt)
           /\ Begin(l) =>
                  \A nxt \in {C35_View'} : ~ENABLED (Begin(l) /\ C35_View' # nxt)
           /\ Wake(l) =>
                  \A nxt \in {C35_View'} : ~ENABLED (Wake(l) /\ C35_View' # nxt)
           /\ \A ok \in BOOLEAN :
                  /\ FocusDone(l, ok) =>
                         \A nxt \in {C35_View'} :
                             ~ENABLED (FocusDone(l, ok) /\ C35_View' # nxt)
                  /\ ExecDoneAt(l, ok) =>
                         \A nxt \in {C35_View'} :
                             ~ENABLED (ExecDoneAt(l, ok) /\ C35_View' # nxt)

\* C35, amended: with a single loop, two runs with the same registrations,
\* the same enqueues at the same points and the same outcomes of the
\* external calls take the tasks off the queues in the same order and end
\* with results lists that agree record by record in task type, arguments
\* and outcome; the timestamps of the records are readings of the clock.
C35_RunsIdenticalButForTimestamps == [][C35_Step]_vars

\* Reached: both browsers were eligible more than once, the loop has
\* recorded two tasks of one and one of the other, a task has failed, and
\* two records carry different timestamps.
C35_Witness ==
    \E r, j \in DOMAIN insts :
        /\ r # j
        /\ Len(insts[r].results) = 2
        /\ insts[r].results[1].timestamp # insts[r].results[2].timestamp
        /\ Len(insts[j].results) >= 1
        /\ Failed(r) + Failed(j) >= 1

====
